---- MODULE Spec2Model ----
(***************************************************************************)
(* A model of the ECS runtime in src/ecs: the entity allocator             *)
(* (entity.py), the triple-indexed component store (storage.py), the       *)
(* resource registry (resources.py) and the World composition root         *)
(* (world.py).  Python dicts are functions whose DOMAIN is the key set,    *)
(* Python sets are sets, Python lists are sequences.                       *)
(***************************************************************************)
EXTENDS Integers, Sequences, FiniteSets, TLC

\* Largest entity id the allocator is allowed to mint in the model.
MaxId == 2

\* Component classes used by callers, and the instances they attach: two
\* distinguishable Position instances and one Velocity instance.
ComponentTypes == {"Position", "Velocity"}
Instances == {[type |-> "Position", val |-> "p"],
              [type |-> "Position", val |-> "q"],
              [type |-> "Velocity", val |-> "v"]}

\* Python's None, as returned by dict.get for a missing key.
None == [type |-> "NoneType", val |-> "None"]

\* type(component)
TypeOf(component) == component.type

\* Entity ids that callers pass to the World.
EntityIds == 1..MaxId

VARIABLES
    alive,               \* EntityManager._alive : set of ids
    free,                \* EntityManager._free  : list of ids
    next_id,             \* EntityManager._next_id
    by_component,        \* ComponentStore._by_component : ctype -> (entity -> instance)
    index_by_component,  \* ComponentStore._index_by_component : ctype -> set of entity
    index_by_entity,     \* ComponentStore._index_by_entity : entity -> set of ctype
    resources,           \* Resources._data : type -> value
    started,             \* World._started
    sched_started,       \* Scheduler._started
    last,                \* the most recent World call: arguments and outcome
    h_issued,            \* history: ids ever returned by create_entity
    h_dead,              \* history: ids destroyed and not re-issued, oldest first
    h_live,              \* history: ids created and not destroyed since
    h_attached,          \* history: (entity, ctype) attached, not removed/destroyed/cleared since
    h_attached_nc,       \* history: as h_attached, but ignoring clear()
    v_status,            \* the view generator: "none", "created", "running", "done", "raised"
    v_types,             \* view: component_types, the tuple of requested types
    v_match,             \* view: the set all_of(...) returned when the generator body started
    v_pending,           \* view: entities the set iterator has not produced yet
    v_out,               \* view: the tuples yielded so far
    v_count,             \* view: how many tuples were yielded so far
    h_v_match,           \* history: entities carrying every requested type when view() was called
    h_v_clean,           \* history: no store facet has changed since view() was called
    systems,             \* Scheduler._systems : list of systems
    world_ref,           \* Scheduler._world_ref is not None
    hooks,               \* the system hooks invoked by the most recent call, in order
    sweep,               \* the list iterator of a running Scheduler.update: the
                         \* index it reads next (0: no update is running)
    h_added,             \* history: the registered systems in the order they were added
    h_running,           \* history: systems whose latest lifecycle hook was start
    h_alternates,        \* history: no start hook ran on a running system, no stop
                         \* hook on one that was not
    h_sweep_initial,     \* history: systems registered when the running update began
    h_sweep_changed      \* history: systems added or removed during the running update

vars == <<alive, free, next_id, by_component, index_by_component, index_by_entity,
          resources, started, sched_started, last,
          h_issued, h_dead, h_live, h_attached, h_attached_nc,
          v_status, v_types, v_match, v_pending, v_out, v_count,
          h_v_match, h_v_clean,
          systems, world_ref, hooks, sweep,
          h_added, h_running, h_alternates, h_sweep_initial, h_sweep_changed>>

alloc_vars == <<alive, free, next_id>>
store_vars == <<by_component, index_by_component, index_by_entity>>
sched_vars == <<started, sched_started>>
hist_vars == <<h_issued, h_dead, h_live, h_attached, h_attached_nc>>
sys_vars == <<systems, world_ref, sweep,
              h_added, h_running, h_alternates, h_sweep_initial, h_sweep_changed>>
view_vars == <<v_status, v_types, v_match, v_pending, v_out, v_count, h_v_match>>

----------------------------------------------------------------------------
\* Python dict primitives.

EmptyDict == [k \in {} |-> None]

\* d.setdefault(k, v): the dict after the call.
SetDefault(d, k, v) ==
    IF k \in DOMAIN d THEN d
    ELSE [x \in DOMAIN d \cup {k} |-> IF x = k THEN v ELSE d[x]]

\* d[k] = v
SetItem(d, k, v) == [x \in DOMAIN d \cup {k} |-> IF x = k THEN v ELSE d[x]]

\* del d[k] / d.pop(k, None)
DelItem(d, k) == [x \in DOMAIN d \ {k} |-> d[x]]

----------------------------------------------------------------------------
\* EntityManager (entity.py).  Each operation returns the fields after the
\* call together with the returned value.

\* Variant: pops the oldest freed id instead of the newest.
create_fifo(a, f, n) ==
    IF f # <<>>
    THEN [alive |-> a \cup {f[1]}, free |-> Tail(f), next_id |-> n, ret |-> f[1]]
    ELSE [alive |-> a \cup {n}, free |-> f, next_id |-> n + 1, ret |-> n]

EntityManager_create(a, f, n) ==
    IF f # <<>>
    THEN LET eid == f[Len(f)]
         IN [alive |-> a \cup {eid}, free |-> SubSeq(f, 1, Len(f) - 1),
             next_id |-> n, ret |-> eid]
    ELSE [alive |-> a \cup {n}, free |-> f, next_id |-> n + 1, ret |-> n]

\* Variant: frees the id without checking that it is alive.
destroy_unguarded(a, f, entity) ==
    [alive |-> a \ {entity}, free |-> Append(f, entity), ret |-> entity \in a]

\* Variant: frees the id but leaves it in the alive set.
destroy_keeps_alive(a, f, entity) ==
    IF entity \in a
    THEN [alive |-> a, free |-> Append(f, entity), ret |-> TRUE]
    ELSE [alive |-> a, free |-> f, ret |-> FALSE]

EntityManager_destroy(a, f, entity) ==
    IF entity \in a
    THEN [alive |-> a \ {entity}, free |-> Append(f, entity), ret |-> TRUE]
    ELSE [alive |-> a, free |-> f, ret |-> FALSE]

is_alive(a, entity) == entity \in a

----------------------------------------------------------------------------
\* ComponentStore (storage.py).  A store value S is the record of the three
\* facets; a mutating operation returns [err, S]: the exception raised
\* ("ok" for none) and the facets after the call.

Store == [by_component |-> by_component,
          index_by_component |-> index_by_component,
          index_by_entity |-> index_by_entity]

EmptyStore == [by_component |-> EmptyDict,
               index_by_component |-> EmptyDict,
               index_by_entity |-> EmptyDict]

\* Variant: the by-entity index is not updated.
index_attach_no_entity(S, bc, entity, ctype) ==
    LET ic == SetDefault(S.index_by_component, ctype, {})
    IN [by_component |-> bc,
        index_by_component |-> SetItem(ic, ctype, ic[ctype] \cup {entity}),
        index_by_entity |-> S.index_by_entity]

\* The two index updates shared by add and upsert (storage.py 28-29, 35-36).
index_attach(S, bc, entity, ctype) ==
    LET ic == SetDefault(S.index_by_component, ctype, {})
        ie == SetDefault(S.index_by_entity, entity, {})
    IN [by_component |-> bc,
        index_by_component |-> SetItem(ic, ctype, ic[ctype] \cup {entity}),
        index_by_entity |-> SetItem(ie, entity, ie[entity] \cup {ctype})]

\* Variant: the instance is stored before the duplicate check.
add_overwrites(S, entity, component) ==
    LET ctype == TypeOf(component)
        bc == SetDefault(S.by_component, ctype, EmptyDict)
    IN IF entity \in DOMAIN bc[ctype]
       THEN [err |-> "ComponentAlreadyExists",
             S |-> [S EXCEPT !.by_component =
                        SetItem(bc, ctype, SetItem(bc[ctype], entity, component))]]
       ELSE [err |-> "ok",
             S |-> index_attach(S, SetItem(bc, ctype, SetItem(bc[ctype], entity, component)),
                                entity, ctype)]

add(S, entity, component) ==
    LET ctype == TypeOf(component)
        bc == SetDefault(S.by_component, ctype, EmptyDict)
    IN IF entity \in DOMAIN bc[ctype]
       THEN [err |-> "ComponentAlreadyExists",
             S |-> [S EXCEPT !.by_component = bc]]
       ELSE [err |-> "ok",
             S |-> index_attach(S, SetItem(bc, ctype, SetItem(bc[ctype], entity, component)),
                                entity, ctype)]

\* Variant: an existing instance is kept (setdefault instead of assignment).
upsert_keeps_old(S, entity, component) ==
    LET ctype == TypeOf(component)
        bc == SetDefault(S.by_component, ctype, EmptyDict)
    IN [err |-> "ok",
        S |-> index_attach(S, SetItem(bc, ctype, SetDefault(bc[ctype], entity, component)),
                           entity, ctype)]

upsert(S, entity, component) ==
    LET ctype == TypeOf(component)
        bc == SetDefault(S.by_component, ctype, EmptyDict)
    IN [err |-> "ok",
        S |-> index_attach(S, SetItem(bc, ctype, SetItem(bc[ctype], entity, component)),
                           entity, ctype)]

\* Variant: the by-component index is left as it was.
remove_keeps_index(S, entity, ctype) ==
    IF \/ ctype \notin DOMAIN S.by_component
       \/ entity \notin DOMAIN S.by_component[ctype]
    THEN [err |-> "ComponentNotFound", S |-> S]
    ELSE LET entities == DelItem(S.by_component[ctype], entity)
             ie0 == S.index_by_entity
         IN [err |-> "ok",
             S |-> [by_component |-> IF entities = EmptyDict
                                     THEN DelItem(S.by_component, ctype)
                                     ELSE SetItem(S.by_component, ctype, entities),
                    index_by_component |-> S.index_by_component,
                    index_by_entity |-> IF entity \in DOMAIN ie0
                                        THEN IF ie0[entity] \ {ctype} = {}
                                             THEN DelItem(ie0, entity)
                                             ELSE SetItem(ie0, entity, ie0[entity] \ {ctype})
                                        ELSE ie0]]

\* Variant: detaches the type from every entity, not only from the one given.
remove_drops_type(S, entity, ctype) ==
    IF \/ ctype \notin DOMAIN S.by_component
       \/ entity \notin DOMAIN S.by_component[ctype]
    THEN [err |-> "ComponentNotFound", S |-> S]
    ELSE [err |-> "ok",
          S |-> [by_component |-> DelItem(S.by_component, ctype),
                 index_by_component |-> DelItem(S.index_by_component, ctype),
                 index_by_entity |->
                     [e \in {x \in DOMAIN S.index_by_entity :
                                S.index_by_entity[x] \ {ctype} # {}} |->
                         S.index_by_entity[e] \ {ctype}]]]

\* Variant: emptied inner containers are not pruned.
remove_no_prune(S, entity, ctype) ==
    IF \/ ctype \notin DOMAIN S.by_component
       \/ entity \notin DOMAIN S.by_component[ctype]
    THEN [err |-> "ComponentNotFound", S |-> S]
    ELSE LET ic0 == S.index_by_component
             ie0 == S.index_by_entity
         IN [err |-> "ok",
             S |-> [by_component |->
                        SetItem(S.by_component, ctype,
                                DelItem(S.by_component[ctype], entity)),
                    index_by_component |->
                        IF ctype \in DOMAIN ic0
                        THEN SetItem(ic0, ctype, ic0[ctype] \ {entity}) ELSE ic0,
                    index_by_entity |->
                        IF entity \in DOMAIN ie0
                        THEN SetItem(ie0, entity, ie0[entity] \ {ctype}) ELSE ie0]]

remove(S, entity, ctype) ==
    IF \/ ctype \notin DOMAIN S.by_component
       \/ S.by_component[ctype] = EmptyDict
       \/ entity \notin DOMAIN S.by_component[ctype]
    THEN [err |-> "ComponentNotFound", S |-> S]
    ELSE LET entities == DelItem(S.by_component[ctype], entity)
             bc == IF entities = EmptyDict
                   THEN DelItem(S.by_component, ctype)
                   ELSE SetItem(S.by_component, ctype, entities)
             ic0 == S.index_by_component
             ic == IF ctype \in DOMAIN ic0 /\ ic0[ctype] # {}
                   THEN IF ic0[ctype] \ {entity} = {}
                        THEN DelItem(ic0, ctype)
                        ELSE SetItem(ic0, ctype, ic0[ctype] \ {entity})
                   ELSE ic0
             ie0 == S.index_by_entity
             ie == IF entity \in DOMAIN ie0 /\ ie0[entity] # {}
                   THEN IF ie0[entity] \ {ctype} = {}
                        THEN DelItem(ie0, entity)
                        ELSE SetItem(ie0, entity, ie0[entity] \ {ctype})
                   ELSE ie0
         IN [err |-> "ok",
             S |-> [by_component |-> bc, index_by_component |-> ic,
                    index_by_entity |-> ie]]

\* The loop of remove_all_for_entity over the snapshot list ctypes; an
\* exception raised by remove ends the loop and propagates.
RECURSIVE remove_each(_, _, _, _)
remove_each(S, entity, ctypes, removed) ==
    IF ctypes = {}
    THEN [err |-> "ok", S |-> S, ret |-> removed]
    ELSE LET ctype == CHOOSE c \in ctypes : TRUE
             r == remove(S, entity, ctype)
         IN IF r.err # "ok"
            THEN [err |-> r.err, S |-> r.S, ret |-> removed]
            ELSE remove_each(r.S, entity, ctypes \ {ctype}, removed + 1)

\* Variant: nothing is removed.
remove_all_skipped(S, entity) == [err |-> "ok", S |-> S, ret |-> 0]

remove_all_for_entity(S, entity) ==
    remove_each(S, entity,
                IF entity \in DOMAIN S.index_by_entity
                THEN S.index_by_entity[entity] ELSE {},
                0)

get(S, entity, ctype) ==
    IF ctype \in DOMAIN S.by_component /\ entity \in DOMAIN S.by_component[ctype]
    THEN S.by_component[ctype][entity]
    ELSE None

has(S, entity, ctype) ==
    ctype \in DOMAIN S.by_component /\ entity \in DOMAIN S.by_component[ctype]

entities_with(S, ctype) ==
    IF ctype \in DOMAIN S.index_by_component THEN S.index_by_component[ctype] ELSE {}

\* The loop of all_of over sets[1:] (storage.py 84-87): in-place
\* intersection, left as soon as the result is empty.
RECURSIVE all_of_loop(_, _, _)
all_of_loop(result, sets, i) ==
    IF i > Len(sets) THEN result
    ELSE LET r == result \cap sets[i]
         IN IF r = {} THEN r ELSE all_of_loop(r, sets, i + 1)

\* Variant: the intersection with the further types is forgotten.
all_of_first_only(S, ctypes) ==
    IF ctypes = <<>> THEN {} ELSE entities_with(S, ctypes[1])

\* all_of(*ctypes): the set the returned iterator runs over.
all_of(S, ctypes) ==
    IF ctypes = <<>> THEN {}
    ELSE LET sets == [k \in 1..Len(ctypes) |-> entities_with(S, ctypes[k])]
         IN all_of_loop(sets[1], sets, 2)

store_clear(S) == EmptyStore

----------------------------------------------------------------------------
\* Resources (resources.py)

\* Variant: the resource registry is left as it is.
resources_kept(d) == d

resources_clear(d) == EmptyDict

\* Values callers put in the registry.
ResourceValues == {[type |-> "Clock", val |-> "t"]}

\* Resources.put
resources_put(d, resource) == SetItem(d, TypeOf(resource), resource)

----------------------------------------------------------------------------
\* The record kept in last.

Call(op, entity, component, ctype, err, ret, flag) ==
    [op |-> op, entity |-> entity, component |-> component, ctype |-> ctype,
     err |-> err, ret |-> ret, flag |-> flag, system |-> "NoSystem"]

\* The record of a call that takes a system, or none, and returns flag.
SysCall(op, system, flag) ==
    [Call(op, 0, None, "NoneType", "ok", None, flag) EXCEPT !.system = system]

Pairs(entity) == {<<entity, c>> : c \in ComponentTypes}

Init ==
    /\ alive = {}
    /\ free = <<>>
    /\ next_id = 1
    /\ by_component = EmptyDict
    /\ index_by_component = EmptyDict
    /\ index_by_entity = EmptyDict
    /\ resources = EmptyDict
    /\ started = FALSE
    /\ sched_started = FALSE
    /\ last = Call("init", 0, None, "NoneType", "ok", None, FALSE)
    /\ h_issued = {}
    /\ h_dead = <<>>
    /\ h_live = {}
    /\ h_attached = {}
    /\ h_attached_nc = {}
    /\ v_status = "none"
    /\ v_types = <<>>
    /\ v_match = {}
    /\ v_pending = {}
    /\ v_out = {}
    /\ v_count = 0
    /\ h_v_match = {}
    /\ h_v_clean = FALSE
    /\ systems = <<>>
    /\ world_ref = FALSE
    /\ hooks = <<>>
    /\ sweep = 0
    /\ h_added = <<>>
    /\ h_running = {}
    /\ h_alternates = TRUE
    /\ h_sweep_initial = {}
    /\ h_sweep_changed = {}

\* A step of a World operation leaves the view object alone; the history
\* notes whether the step changed the store.
ViewUntouched ==
    /\ UNCHANGED view_vars
    /\ h_v_clean' = (h_v_clean /\ store_vars' = store_vars)

\* A step of an entity, component or view operation invokes no system hook
\* and leaves the scheduler alone.
SchedUntouched ==
    /\ hooks' = <<>>
    /\ UNCHANGED sys_vars

SetStore(S) ==
    /\ by_component' = S.by_component
    /\ index_by_component' = S.index_by_component
    /\ index_by_entity' = S.index_by_entity

----------------------------------------------------------------------------
\* Systems and the Scheduler (system.py).  A system is known by its name
\* and its priority; its start and stop hooks do nothing but get invoked.

Systems == {"a", "b", "c"}

\* System.priority of the three systems: two of them tie.
Priority(system) ==
    CASE system = "a" -> 5
      [] system = "b" -> 10
      [] system = "c" -> 5

Hook(hook, system) == [hook |-> hook, system |-> system]

\* Variant: reverse=True is missing from the sort.
sort_ascending(seq) ==
    LET RECURSIVE asc(_)
        asc(q) ==
            IF q = <<>> THEN <<>>
            ELSE LET init == asc(SubSeq(q, 1, Len(q) - 1))
                     x == q[Len(q)]
                     k == Cardinality({i \in 1..Len(init) :
                                         Priority(init[i]) <= Priority(x)})
                 IN SubSeq(init, 1, k) \o <<x>> \o SubSeq(init, k + 1, Len(init))
    IN asc(seq)

\* list.sort(key=lambda s: s.priority, reverse=True): a stable sort, so
\* systems of equal priority keep the order they have in seq.
RECURSIVE sort_by_priority(_)
sort_by_priority(seq) ==
    IF seq = <<>> THEN <<>>
    ELSE LET init == sort_by_priority(SubSeq(seq, 1, Len(seq) - 1))
             x == seq[Len(seq)]
             k == Cardinality({i \in 1..Len(init) :
                                 Priority(init[i]) >= Priority(x)})
         IN SubSeq(init, 1, k) \o <<x>> \o SubSeq(init, k + 1, Len(init))

\* list.remove(x): drops the first occurrence of x.
list_remove(seq, x) ==
    LET k == CHOOSE i \in 1..Len(seq) :
                 seq[i] = x /\ \A j \in 1..(i - 1) : seq[j] # x
    IN SubSeq(seq, 1, k - 1) \o SubSeq(seq, k + 1, Len(seq))

Reverse(seq) == [i \in 1..Len(seq) |-> seq[Len(seq) + 1 - i]]

\* Scheduler.add: the list after it and the hooks it invokes.
Scheduler_add(sys, ss, wr, system) ==
    [systems |-> sort_by_priority(Append(sys, system)),
     hooks |-> IF ss /\ wr THEN <<Hook("start", system)>> ELSE <<>>]

\* Scheduler.remove
Scheduler_remove(sys, ss, wr, system) ==
    IF \E i \in 1..Len(sys) : sys[i] = system
    THEN [systems |-> list_remove(sys, system),
          hooks |-> IF ss /\ wr THEN <<Hook("stop", system)>> ELSE <<>>,
          ret |-> TRUE]
    ELSE [systems |-> sys, hooks |-> <<>>, ret |-> FALSE]

\* Scheduler.start: there is no test of _started.
Scheduler_start(sys, ss, wr) ==
    [sched_started |-> TRUE, world_ref |-> TRUE,
     hooks |-> [i \in 1..Len(sys) |-> Hook("start", sys[i])]]

\* Variant: the stop hooks run in list order.
Scheduler_stop_forward(sys, ss, wr) ==
    [sched_started |-> FALSE, world_ref |-> FALSE,
     hooks |-> [i \in 1..Len(sys) |-> Hook("stop", sys[i])]]

\* Scheduler.stop: there is no test of _started.
Scheduler_stop(sys, ss, wr) ==
    [sched_started |-> FALSE, world_ref |-> FALSE,
     hooks |-> Reverse([i \in 1..Len(sys) |-> Hook("stop", sys[i])])]

\* Scheduler.update with hooks that leave the list of systems alone.
Scheduler_update(sys) == [i \in 1..Len(sys) |-> Hook("update", sys[i])]

\* The history of the lifecycle hooks: h is [running, alternates].
RECURSIVE life_after(_, _)
life_after(h, hs) ==
    IF hs = <<>> THEN h
    ELSE LET x == Head(hs)
             g == CASE x.hook = "start" ->
                         [running |-> h.running \cup {x.system},
                          alternates |-> h.alternates /\ x.system \notin h.running]
                    [] x.hook = "stop" ->
                         [running |-> h.running \ {x.system},
                          alternates |-> h.alternates /\ x.system \in h.running]
                    [] OTHER -> h
         IN life_after(g, Tail(hs))

NoteHooks(hs) ==
    LET g == life_after([running |-> h_running, alternates |-> h_alternates], hs)
    IN /\ h_running' = g.running
       /\ h_alternates' = g.alternates

----------------------------------------------------------------------------
\* The World's lifecycle and systems API (world.py 28-36, 139-148).

\* World.start
World_start(st, ss, wr, sys) ==
    IF ~st
    THEN LET r == Scheduler_start(sys, ss, wr)
         IN [started |-> TRUE, sched_started |-> r.sched_started,
             world_ref |-> r.world_ref, hooks |-> r.hooks]
    ELSE [started |-> st, sched_started |-> ss, world_ref |-> wr, hooks |-> <<>>]

\* World.stop
World_stop(st, ss, wr, sys) ==
    IF st
    THEN LET r == Scheduler_stop(sys, ss, wr)
         IN [started |-> FALSE, sched_started |-> r.sched_started,
             world_ref |-> r.world_ref, hooks |-> r.hooks]
    ELSE [started |-> st, sched_started |-> ss, world_ref |-> wr, hooks |-> <<>>]

\* Variant: the start hook is left to the scheduler alone.
World_add_system_once(st, ss, wr, sys, system) ==
    Scheduler_add(sys, ss, wr, system)

\* World.add_system: Scheduler.add, then the world's own call of the hook.
World_add_system(st, ss, wr, sys, system) ==
    LET r == Scheduler_add(sys, ss, wr, system)
    IN [systems |-> r.systems,
        hooks |-> r.hooks \o (IF st THEN <<Hook("start", system)>> ELSE <<>>)]

\* World.remove_system
World_remove_system(st, ss, wr, sys, system) ==
    Scheduler_remove(sys, ss, wr, system)

\* Variant: the liveness check is missing.
require_alive_missing(a, entity) == FALSE

\* World._require_alive: TRUE when it raises EntityNotFound.
require_alive_raises(a, entity) == ~is_alive(a, entity)

\* The loop of World.clear over list(self.entities); an exception raised by
\* remove_all_for_entity ends the loop and propagates.
RECURSIVE clear_each(_, _)
clear_each(S, entities) ==
    IF entities = {}
    THEN [err |-> "ok", S |-> S]
    ELSE LET e == CHOOSE x \in entities : TRUE
             r == remove_all_for_entity(S, e)
         IN IF r.err # "ok"
            THEN [err |-> r.err, S |-> r.S]
            ELSE clear_each(r.S, entities \ {e})

----------------------------------------------------------------------------
\* World operations (world.py).

RemoveFromSeq(s, x) == SelectSeq(s, LAMBDA y : y # x)

create_entity ==
    /\ free # <<>> \/ next_id <= MaxId
    /\ LET r == EntityManager_create(alive, free, next_id)
       IN /\ alive' = r.alive
          /\ free' = r.free
          /\ next_id' = r.next_id
          /\ last' = Call("create_entity", r.ret, None, "NoneType", "ok", None, FALSE)
          /\ h_issued' = h_issued \cup {r.ret}
          /\ h_dead' = RemoveFromSeq(h_dead, r.ret)
          /\ h_live' = h_live \cup {r.ret}
    /\ UNCHANGED <<store_vars, resources, sched_vars, h_attached, h_attached_nc>>
    /\ ViewUntouched
    /\ SchedUntouched

destroy_entity(entity) ==
    /\ LET d == EntityManager_destroy(alive, free, entity)
       IN /\ alive' = d.alive
          /\ free' = d.free
          /\ h_live' = h_live \ {entity}
          /\ IF ~d.ret
             THEN /\ last' = Call("destroy_entity", entity, None, "NoneType",
                                  "EntityNotFound", None, d.ret)
                  /\ UNCHANGED <<store_vars, h_dead, h_attached, h_attached_nc>>
             ELSE LET r == remove_all_for_entity(Store, entity)
                  IN /\ SetStore(r.S)
                     /\ last' = Call("destroy_entity", entity, None, "NoneType",
                                     r.err, None, d.ret)
                     /\ h_dead' = Append(RemoveFromSeq(h_dead, entity), entity)
                     /\ h_attached' = h_attached \ Pairs(entity)
                     /\ h_attached_nc' = h_attached_nc \ Pairs(entity)
          /\ UNCHANGED <<next_id, resources, sched_vars, h_issued>>
    /\ ViewUntouched
    /\ SchedUntouched

add_component(entity, component) ==
    /\ IF require_alive_raises(alive, entity)
       THEN /\ last' = Call("add_component", entity, component, TypeOf(component),
                            "EntityNotFound", None, FALSE)
            /\ UNCHANGED <<store_vars, h_attached, h_attached_nc>>
       ELSE LET r == add(Store, entity, component)
            IN /\ SetStore(r.S)
               /\ last' = Call("add_component", entity, component, TypeOf(component),
                               r.err, None, FALSE)
               /\ IF r.err = "ok"
                  THEN /\ h_attached' = h_attached \cup {<<entity, TypeOf(component)>>}
                       /\ h_attached_nc' = h_attached_nc \cup {<<entity, TypeOf(component)>>}
                  ELSE UNCHANGED <<h_attached, h_attached_nc>>
    /\ UNCHANGED <<alloc_vars, resources, sched_vars, h_issued, h_dead, h_live>>
    /\ ViewUntouched
    /\ SchedUntouched

upsert_component(entity, component) ==
    /\ IF require_alive_raises(alive, entity)
       THEN /\ last' = Call("upsert_component", entity, component, TypeOf(component),
                            "EntityNotFound", None, FALSE)
            /\ UNCHANGED <<store_vars, h_attached, h_attached_nc>>
       ELSE LET r == upsert(Store, entity, component)
            IN /\ SetStore(r.S)
               /\ last' = Call("upsert_component", entity, component, TypeOf(component),
                               r.err, None, FALSE)
               /\ IF r.err = "ok"
                  THEN /\ h_attached' = h_attached \cup {<<entity, TypeOf(component)>>}
                       /\ h_attached_nc' = h_attached_nc \cup {<<entity, TypeOf(component)>>}
                  ELSE UNCHANGED <<h_attached, h_attached_nc>>
    /\ UNCHANGED <<alloc_vars, resources, sched_vars, h_issued, h_dead, h_live>>
    /\ ViewUntouched
    /\ SchedUntouched

remove_component(entity, ctype) ==
    /\ IF require_alive_raises(alive, entity)
       THEN /\ last' = Call("remove_component", entity, None, ctype,
                            "EntityNotFound", None, FALSE)
            /\ UNCHANGED <<store_vars, h_attached, h_attached_nc>>
       ELSE LET r == remove(Store, entity, ctype)
            IN /\ SetStore(r.S)
               /\ last' = Call("remove_component", entity, None, ctype,
                               r.err, None, FALSE)
               /\ IF r.err = "ok"
                  THEN /\ h_attached' = h_attached \ {<<entity, ctype>>}
                       /\ h_attached_nc' = h_attached_nc \ {<<entity, ctype>>}
                  ELSE UNCHANGED <<h_attached, h_attached_nc>>
    /\ UNCHANGED <<alloc_vars, resources, sched_vars, h_issued, h_dead, h_live>>
    /\ ViewUntouched
    /\ SchedUntouched

get_component(entity, ctype) ==
    /\ IF require_alive_raises(alive, entity)
       THEN last' = Call("get_component", entity, None, ctype,
                         "EntityNotFound", None, FALSE)
       ELSE last' = Call("get_component", entity, None, ctype,
                         "ok", get(Store, entity, ctype), FALSE)
    /\ UNCHANGED <<alloc_vars, store_vars, resources, sched_vars, hist_vars>>
    /\ ViewUntouched
    /\ SchedUntouched

require_component(entity, ctype) ==
    /\ IF require_alive_raises(alive, entity)
       THEN last' = Call("require_component", entity, None, ctype,
                         "EntityNotFound", None, FALSE)
       ELSE LET comp == get(Store, entity, ctype)
            IN IF comp = None
               THEN last' = Call("require_component", entity, None, ctype,
                                 "ComponentNotFound", None, FALSE)
               ELSE last' = Call("require_component", entity, None, ctype,
                                 "ok", comp, FALSE)
    /\ UNCHANGED <<alloc_vars, store_vars, resources, sched_vars, hist_vars>>
    /\ ViewUntouched
    /\ SchedUntouched

has_component(entity, ctype) ==
    /\ IF require_alive_raises(alive, entity)
       THEN last' = Call("has_component", entity, None, ctype,
                         "EntityNotFound", None, FALSE)
       ELSE last' = Call("has_component", entity, None, ctype,
                         "ok", None, has(Store, entity, ctype))
    /\ UNCHANGED <<alloc_vars, store_vars, resources, sched_vars, hist_vars>>
    /\ ViewUntouched
    /\ SchedUntouched

\* Variant: clear() gives the allocator a fresh start.
clear_resets_allocator ==
    /\ LET s == World_stop(started, sched_started, world_ref, systems)
           r == clear_each(Store, alive)
       IN /\ started' = s.started
          /\ sched_started' = s.sched_started
          /\ world_ref' = s.world_ref
          /\ hooks' = s.hooks
          /\ NoteHooks(s.hooks)
          /\ IF r.err # "ok"
             THEN SetStore(r.S) /\ UNCHANGED resources
             ELSE SetStore(store_clear(r.S)) /\ resources' = resources_clear(resources)
          /\ last' = Call("clear", 0, None, "NoneType", r.err, None, FALSE)
    /\ h_attached' = {}
    /\ alive' = {} /\ free' = <<>> /\ next_id' = 1
    /\ UNCHANGED <<h_issued, h_dead, h_live, h_attached_nc>>
    /\ UNCHANGED <<systems, sweep, h_added, h_sweep_initial, h_sweep_changed>>
    /\ ViewUntouched

clear ==
    /\ LET s == World_stop(started, sched_started, world_ref, systems)
           r == clear_each(Store, alive)
       IN /\ started' = s.started
          /\ sched_started' = s.sched_started
          /\ world_ref' = s.world_ref
          /\ hooks' = s.hooks
          /\ NoteHooks(s.hooks)
          /\ IF r.err # "ok"
             THEN SetStore(r.S) /\ UNCHANGED resources
             ELSE SetStore(store_clear(r.S)) /\ resources' = resources_clear(resources)
          /\ last' = Call("clear", 0, None, "NoneType", r.err, None, FALSE)
    /\ h_attached' = {}
    /\ UNCHANGED <<alloc_vars, h_issued, h_dead, h_live, h_attached_nc>>
    /\ UNCHANGED <<systems, sweep, h_added, h_sweep_initial, h_sweep_changed>>
    /\ ViewUntouched

\* A step of a lifecycle, system or resource operation leaves entities,
\* components and the view object alone.
EntitiesUntouched ==
    /\ UNCHANGED <<alloc_vars, store_vars, hist_vars>>
    /\ ViewUntouched

\* world.resources.put(resource)
put_resource(resource) ==
    /\ resources' = resources_put(resources, resource)
    /\ last' = Call("put_resource", 0, resource, TypeOf(resource), "ok", None, FALSE)
    /\ UNCHANGED sched_vars
    /\ EntitiesUntouched
    /\ SchedUntouched

start ==
    /\ LET r == World_start(started, sched_started, world_ref, systems)
       IN /\ started' = r.started
          /\ sched_started' = r.sched_started
          /\ world_ref' = r.world_ref
          /\ hooks' = r.hooks
          /\ NoteHooks(r.hooks)
    /\ last' = SysCall("start", "NoSystem", ~started)
    /\ UNCHANGED <<systems, sweep, h_added, h_sweep_initial, h_sweep_changed, resources>>
    /\ EntitiesUntouched

stop ==
    /\ LET r == World_stop(started, sched_started, world_ref, systems)
       IN /\ started' = r.started
          /\ sched_started' = r.sched_started
          /\ world_ref' = r.world_ref
          /\ hooks' = r.hooks
          /\ NoteHooks(r.hooks)
    /\ last' = SysCall("stop", "NoSystem", started)
    /\ UNCHANGED <<systems, sweep, h_added, h_sweep_initial, h_sweep_changed, resources>>
    /\ EntitiesUntouched

\* add_system with a system that is not registered yet.
add_system(system) ==
    /\ \A i \in 1..Len(systems) : systems[i] # system
    /\ LET r == World_add_system(started, sched_started, world_ref, systems, system)
       IN /\ systems' = r.systems
          /\ hooks' = r.hooks
          /\ NoteHooks(r.hooks)
    /\ h_added' = Append(h_added, system)
    /\ last' = SysCall("add_system", system, FALSE)
    /\ UNCHANGED <<sched_vars, world_ref, sweep, h_sweep_initial, h_sweep_changed, resources>>
    /\ EntitiesUntouched

remove_system(system) ==
    /\ LET r == World_remove_system(started, sched_started, world_ref, systems, system)
       IN /\ systems' = r.systems
          /\ hooks' = r.hooks
          /\ NoteHooks(r.hooks)
          /\ last' = SysCall("remove_system", system, r.ret)
    /\ h_added' = SelectSeq(h_added, LAMBDA y : y # system)
    /\ UNCHANGED <<sched_vars, world_ref, sweep, h_sweep_initial, h_sweep_changed, resources>>
    /\ EntitiesUntouched

\* What the update hook of a system does: nothing to the world's systems,
\* or a call of add_system or remove_system.
HookBodies ==
    {[call |-> "none", system |-> "NoSystem"]}
        \cup {[call |-> c, system |-> x] : c \in {"add_system", "remove_system"},
                                           x \in Systems}

\* World.update, first step: Scheduler.update makes the iterator of its loop.
update_begin ==
    /\ sweep = 0
    /\ sweep' = 1
    /\ hooks' = <<>>
    /\ h_sweep_initial' = {systems[i] : i \in 1..Len(systems)}
    /\ h_sweep_changed' = {}
    /\ last' = SysCall("update", "NoSystem", FALSE)
    /\ UNCHANGED <<sched_vars, systems, world_ref, h_added, h_running, h_alternates,
                   resources>>
    /\ EntitiesUntouched

\* World.update, one round of the loop of Scheduler.update: the iterator
\* hands out the element at its index, if the list is that long, and the
\* system's update hook runs; otherwise the loop and the call end.
update_step ==
    /\ sweep >= 1
    /\ IF sweep > Len(systems)
       THEN /\ sweep' = 0
            /\ h_sweep_initial' = {}
            /\ h_sweep_changed' = {}
            /\ last' = SysCall("update", "NoSystem", TRUE)
            /\ UNCHANGED <<systems, hooks, h_added, h_running, h_alternates>>
       ELSE \E b \in HookBodies :
            LET cur == systems[sweep]
                here == <<Hook("update", cur)>>
                registered == \E i \in 1..Len(systems) : systems[i] = b.system
            IN /\ sweep' = sweep + 1
               /\ last' = SysCall("update", cur, FALSE)
               /\ UNCHANGED h_sweep_initial
               /\ CASE b.call = "none" ->
                         /\ hooks' = hooks \o here
                         /\ UNCHANGED <<systems, h_added, h_running, h_alternates,
                                        h_sweep_changed>>
                    [] b.call = "add_system" ->
                         /\ ~registered
                         /\ LET r == World_add_system(started, sched_started,
                                                      world_ref, systems, b.system)
                            IN /\ systems' = r.systems
                               /\ hooks' = hooks \o here \o r.hooks
                               /\ NoteHooks(r.hooks)
                         /\ h_added' = Append(h_added, b.system)
                         /\ h_sweep_changed' = h_sweep_changed \cup {b.system}
                    [] b.call = "remove_system" ->
                         LET r == World_remove_system(started, sched_started,
                                                      world_ref, systems, b.system)
                         IN /\ systems' = r.systems
                            /\ hooks' = hooks \o here \o r.hooks
                            /\ NoteHooks(r.hooks)
                            /\ h_added' = SelectSeq(h_added, LAMBDA y : y # b.system)
                            /\ h_sweep_changed' =
                                   IF r.ret THEN h_sweep_changed \cup {b.system}
                                   ELSE h_sweep_changed
    /\ UNCHANGED <<sched_vars, world_ref, resources>>
    /\ EntitiesUntouched

\* The Scheduler used on its own, by a caller that holds one.
Scheduler_call_add(system) ==
    /\ \A i \in 1..Len(systems) : systems[i] # system
    /\ LET r == Scheduler_add(systems, sched_started, world_ref, system)
       IN /\ systems' = r.systems
          /\ hooks' = r.hooks
          /\ NoteHooks(r.hooks)
    /\ h_added' = Append(h_added, system)
    /\ last' = SysCall("Scheduler.add", system, FALSE)
    /\ UNCHANGED <<sched_vars, world_ref, sweep, h_sweep_initial, h_sweep_changed, resources>>
    /\ EntitiesUntouched

Scheduler_call_remove(system) ==
    /\ LET r == Scheduler_remove(systems, sched_started, world_ref, system)
       IN /\ systems' = r.systems
          /\ hooks' = r.hooks
          /\ NoteHooks(r.hooks)
          /\ last' = SysCall("Scheduler.remove", system, r.ret)
    /\ h_added' = SelectSeq(h_added, LAMBDA y : y # system)
    /\ UNCHANGED <<sched_vars, world_ref, sweep, h_sweep_initial, h_sweep_changed, resources>>
    /\ EntitiesUntouched

Scheduler_call_start ==
    /\ LET r == Scheduler_start(systems, sched_started, world_ref)
       IN /\ sched_started' = r.sched_started
          /\ world_ref' = r.world_ref
          /\ hooks' = r.hooks
          /\ NoteHooks(r.hooks)
    /\ last' = SysCall("Scheduler.start", "NoSystem", sched_started)
    /\ UNCHANGED <<started, systems, sweep, h_added, h_sweep_initial, h_sweep_changed,
                   resources>>
    /\ EntitiesUntouched

Scheduler_call_stop ==
    /\ LET r == Scheduler_stop(systems, sched_started, world_ref)
       IN /\ sched_started' = r.sched_started
          /\ world_ref' = r.world_ref
          /\ hooks' = r.hooks
          /\ NoteHooks(r.hooks)
    /\ last' = SysCall("Scheduler.stop", "NoSystem", sched_started)
    /\ UNCHANGED <<started, systems, sweep, h_added, h_sweep_initial, h_sweep_changed,
                   resources>>
    /\ EntitiesUntouched

Scheduler_call_update ==
    /\ hooks' = Scheduler_update(systems)
    /\ last' = SysCall("Scheduler.update", "NoSystem", sched_started)
    /\ UNCHANGED <<sched_vars, resources>>
    /\ UNCHANGED sys_vars
    /\ EntitiesUntouched

----------------------------------------------------------------------------
\* World.view (world.py 100-132).  view() only builds component_types and
\* returns the generator object: the generator's body, and with it the call
\* of all_of, runs when the first tuple is asked for.  The model follows one
\* view object from its creation to its end.

\* Type lists callers pass to view().
ViewTypeLists == {<<"Position">>, <<"Velocity">>,
                  <<"Position", "Velocity">>, <<"Velocity", "Position">>}

NoTuple == [entity |-> 0, components |-> <<>>]

\* Variant: the check for a missing component is left out.
view_body_unchecked(S, ctypes, entity) ==
    [err |-> "ok",
     tuple |-> [entity |-> entity,
                components |-> [k \in 1..Len(ctypes) |-> get(S, entity, ctypes[k])]]]

\* The body of the generator's for loop for one entity (world.py 122-130):
\* the tuple it yields, or the ComponentNotFound it raises.
view_body(S, ctypes, entity) ==
    LET components == [k \in 1..Len(ctypes) |-> get(S, entity, ctypes[k])]
    IN IF \E k \in 1..Len(ctypes) : components[k] = None
       THEN [err |-> "ComponentNotFound", tuple |-> NoTuple]
       ELSE [err |-> "ok", tuple |-> [entity |-> entity, components |-> components]]

\* The entities that carry every type of ctypes, read from the instance mapping.
Carriers(S, ctypes) ==
    {e \in EntityIds : \A k \in 1..Len(ctypes) : has(S, e, ctypes[k])}

view(ctypes) ==
    /\ v_status = "none"
    /\ v_status' = "created"
    /\ v_types' = ctypes
    /\ v_match' = {}
    /\ v_pending' = {}
    /\ v_out' = {}
    /\ v_count' = 0
    /\ h_v_match' = Carriers(Store, ctypes)
    /\ h_v_clean' = TRUE
    /\ last' = Call("view", 0, None, "NoneType", "ok", None, FALSE)
    /\ UNCHANGED <<alloc_vars, store_vars, resources, sched_vars, hist_vars>>
    /\ SchedUntouched

\* next() on the generator: on the first call the body starts and all_of is
\* evaluated; then the set iterator produces an entity (in no specified
\* order) or is exhausted.
view_next ==
    /\ v_status \in {"created", "running"}
    /\ LET match == IF v_status = "created" THEN all_of(Store, v_types) ELSE v_match
           pending == IF v_status = "created" THEN match ELSE v_pending
       IN /\ v_match' = match
          /\ IF pending = {}
             THEN /\ v_status' = "done"
                  /\ v_pending' = {}
                  /\ last' = Call("view_next", 0, None, "NoneType", "StopIteration",
                                  None, FALSE)
                  /\ UNCHANGED <<v_out, v_count>>
             ELSE \E e \in pending :
                     LET r == view_body(Store, v_types, e)
                     IN /\ IF r.err # "ok"
                           THEN /\ v_status' = "raised"
                                /\ v_pending' = pending \ {e}
                                /\ UNCHANGED <<v_out, v_count>>
                           ELSE /\ v_status' = "running"
                                /\ v_pending' = pending \ {e}
                                /\ v_out' = v_out \cup {r.tuple}
                                /\ v_count' = v_count + 1
                        /\ last' = Call("view_next", e, None, "NoneType", r.err,
                                        None, FALSE)
    /\ UNCHANGED <<v_types, h_v_match, h_v_clean>>
    /\ UNCHANGED <<alloc_vars, store_vars, resources, sched_vars, hist_vars>>
    /\ SchedUntouched

Next ==
    \/ create_entity
    \/ \E e \in EntityIds : destroy_entity(e)
    \/ \E e \in EntityIds, x \in Instances : add_component(e, x)
    \/ \E e \in EntityIds, x \in Instances : upsert_component(e, x)
    \/ \E e \in EntityIds, c \in ComponentTypes : remove_component(e, c)
    \/ \E e \in EntityIds, c \in ComponentTypes : get_component(e, c)
    \/ \E e \in EntityIds, c \in ComponentTypes : require_component(e, c)
    \/ \E e \in EntityIds, c \in ComponentTypes : has_component(e, c)
    \/ clear

Spec == Init /\ [][Next]_vars

\* The operations around one view: entities are created and destroyed,
\* components attached and detached, before, between and after the
\* consumption steps of the view, until the view has ended.
NextView ==
    \/ v_status \notin {"done", "raised"} /\ create_entity
    \/ v_status \notin {"done", "raised"} /\ \E e \in EntityIds : destroy_entity(e)
    \/ v_status \notin {"done", "raised"} /\
          \E e \in EntityIds, x \in Instances : add_component(e, x)
    \/ v_status \notin {"done", "raised"} /\
          \E e \in EntityIds, c \in ComponentTypes : remove_component(e, c)
    \/ \E ts \in ViewTypeLists : view(ts)
    \/ view_next

SpecView == Init /\ [][NextView]_vars

\* The lifecycle and the systems of a world; no call is made while an
\* update is under way except by the running hook.
NextSystems ==
    \/ sweep = 0 /\ start
    \/ sweep = 0 /\ stop
    \/ sweep = 0 /\ \E x \in Systems : add_system(x)
    \/ sweep = 0 /\ \E x \in Systems : remove_system(x)
    \/ update_begin
    \/ update_step

SpecSystems == Init /\ [][NextSystems]_vars

\* A Scheduler driven through its own methods.
NextScheduler ==
    \/ \E x \in Systems : Scheduler_call_add(x)
    \/ \E x \in Systems : Scheduler_call_remove(x)
    \/ Scheduler_call_start
    \/ Scheduler_call_stop
    \/ Scheduler_call_update

SpecScheduler == Init /\ [][NextScheduler]_vars

\* A world that is populated, given resources and systems, started and
\* cleared.
NextClear ==
    \/ create_entity
    \/ \E e \in EntityIds, x \in Instances : add_component(e, x)
    \/ \E r \in ResourceValues : put_resource(r)
    \/ \E x \in {"a", "b"} : add_system(x)
    \/ start
    \/ clear

SpecClear == Init /\ [][NextClear]_vars

----------------------------------------------------------------------------
\* Vocabulary of the properties.

SeqRange(s) == {s[i] : i \in 1..Len(s)}

\* Every entity id and component type that occurs as a key or member
\* anywhere in the store, together with those callers use.
StoreEntities ==
    EntityIds \cup DOMAIN index_by_entity
              \cup UNION {index_by_component[c] : c \in DOMAIN index_by_component}
              \cup UNION {DOMAIN by_component[c] : c \in DOMAIN by_component}
StoreTypes ==
    ComponentTypes \cup DOMAIN by_component \cup DOMAIN index_by_component
                   \cup UNION {index_by_entity[e] : e \in DOMAIN index_by_entity}

InIndexByComponent(e, c) == c \in DOMAIN index_by_component /\ e \in index_by_component[c]
InIndexByEntity(e, c) == e \in DOMAIN index_by_entity /\ c \in index_by_entity[e]
HoldsInstance(e, c) == c \in DOMAIN by_component /\ e \in DOMAIN by_component[c]

ComponentOps == {"add_component", "upsert_component", "remove_component",
                 "get_component", "require_component", "has_component"}

\* C1: in every reachable state the three store facets agree: for every
\* entity E and component type C, E is in _index_by_component[C] iff C is in
\* _index_by_entity[E] iff _by_component[C] holds an instance for E.
C1_FacetsAgree ==
    \A e \in StoreEntities, c \in StoreTypes :
        /\ InIndexByComponent(e, c) <=> InIndexByEntity(e, c)
        /\ InIndexByEntity(e, c) <=> HoldsInstance(e, c)

\* C1 witness: a failed add has just returned while one entity carries two
\* types and another entity carries one.
C1_Witness ==
    /\ last.op = "add_component" /\ last.err = "ComponentAlreadyExists"
    /\ \E e \in alive : \A c \in ComponentTypes : HoldsInstance(e, c)
    /\ \E e1, e2 \in alive : e1 # e2 /\ HoldsInstance(e1, "Position")
                                     /\ HoldsInstance(e2, "Position")

\* C2: no component outlives its entity: every entity id in any facet of the
\* store is alive, and an id that create_entity has just returned carries no
\* component of any type.
C2_NoOrphan ==
    /\ \A e \in StoreEntities, c \in StoreTypes :
          (InIndexByComponent(e, c) \/ InIndexByEntity(e, c) \/ HoldsInstance(e, c))
              => e \in alive
    /\ DOMAIN index_by_entity \subseteq alive
    /\ last.op = "create_entity" =>
          /\ last.entity \notin DOMAIN index_by_entity
          /\ \A c \in StoreTypes :
                ~InIndexByComponent(last.entity, c) /\ ~HoldsInstance(last.entity, c)

\* C2 witness: create_entity has just handed out a recycled id (smaller than
\* the newest minted id) while another entity still carries components.
C2_Witness ==
    /\ last.op = "create_entity"
    /\ last.entity + 1 < next_id
    /\ \E e \in alive \ {last.entity} : \A c \in ComponentTypes : HoldsInstance(e, c)

\* C3: a component operation on an id that is not alive fails with
\* EntityNotFound and leaves all three store facets as they were.
C3_DeadEntityRejected ==
    [][(last'.op \in ComponentOps /\ last'.entity \notin alive)
         => /\ last'.err = "EntityNotFound"
            /\ last'.ret = None
            /\ UNCHANGED store_vars]_vars

\* C3 witness: remove_component has just been rejected for an id that was
\* issued and destroyed, while the store holds components of that type.
C3_Witness ==
    /\ last.op = "remove_component" /\ last.err = "EntityNotFound"
    /\ last.entity \in h_issued \ alive
    /\ HoldsInstance(CHOOSE e \in EntityIds : e # last.entity, last.ctype)

\* C4: a World operation that fails leaves the allocator and the store (and
\* the rest of the world) unchanged; each error comes only from the
\* operations that document it; destroy_entity of an id that is not alive
\* raises EntityNotFound.
C4_FailureChangesNothing ==
    [][/\ last'.err # "ok" =>
            /\ UNCHANGED <<alloc_vars, store_vars, resources, sched_vars>>
            /\ last'.err = "EntityNotFound" =>
                  last'.op \in ComponentOps \cup {"destroy_entity"}
            /\ last'.err = "ComponentAlreadyExists" => last'.op = "add_component"
            /\ last'.err = "ComponentNotFound" =>
                  last'.op \in {"remove_component", "require_component"}
       /\ (last'.op = "destroy_entity" /\ last'.entity \notin alive) =>
            last'.err = "EntityNotFound"]_vars

\* C4 witness: a second destroy_entity of an id already on the free list has
\* just failed, while another entity carries a component.
C4_Witness ==
    /\ last.op = "destroy_entity" /\ last.err = "EntityNotFound"
    /\ last.entity \in SeqRange(free)
    /\ \E e \in alive : HoldsInstance(e, "Position")

\* The smallest positive integer that create_entity has never returned.
SmallestUnissued ==
    CHOOSE n \in 1..(MaxId + 1) : n \notin h_issued /\ \A m \in 1..(n - 1) : m \in h_issued

\* C5: identifier recycling is LIFO: create_entity returns the most recently
\* destroyed id that has not been re-issued, if there is one, and otherwise
\* the smallest positive integer never issued before.
C5_LifoRecycling ==
    [][last'.op = "create_entity" =>
          last'.entity = IF h_dead # <<>> THEN h_dead[Len(h_dead)]
                         ELSE SmallestUnissued]_vars

\* C5 witness: ids 1 then 2 were destroyed and create_entity has just
\* returned 2, leaving 1 as the only id awaiting reuse.
C5_Witness ==
    /\ last.op = "create_entity" /\ last.entity = 2
    /\ h_dead = <<1>>
    /\ h_issued = {1, 2}
    /\ alive = {2}

\* The allocator's bookkeeping: the free list has no duplicate, is disjoint
\* from the alive set, and together they are exactly 1 .. next_id - 1.
AllocatorPartition ==
    /\ \A i, j \in 1..Len(free) : free[i] = free[j] => i = j
    /\ SeqRange(free) \cap alive = {}
    /\ alive \cup SeqRange(free) = 1..(next_id - 1)

\* C6: ids are unique among alive entities: the allocator's bookkeeping holds
\* in every reachable state, create_entity never returns an id that is alive
\* or below 1, and destroying an id that is not alive returns false and
\* leaves the allocator as it was.
C6_UniqueIds ==
    /\ AllocatorPartition
    /\ [][/\ AllocatorPartition'
          /\ last'.op = "create_entity" =>
                last'.entity \notin alive /\ last'.entity >= 1
          /\ (last'.op = "destroy_entity" /\ last'.entity \notin alive) =>
                last'.flag = FALSE /\ UNCHANGED alloc_vars]_vars

\* C6 witness: with one id alive and one on the free list, destroying the
\* freed id again has just returned false.
C6_Witness ==
    /\ last.op = "destroy_entity" /\ last.flag = FALSE
    /\ last.entity \in SeqRange(free)
    /\ alive # {}
    /\ next_id = MaxId + 1

\* C7: is_alive(id) is true exactly for the ids that create_entity returned
\* and that have not been destroyed since.
C7_AliveIffCreatedNotDestroyed ==
    \A id \in EntityIds \cup alive \cup h_live \cup {0, MaxId + 1} :
        is_alive(alive, id) <=> id \in h_live

\* C7 witness: ids 1 and 2 were both destroyed (2 first) and id 1 has just
\* been created again: 1 is alive, 2 is not.
C7_Witness ==
    /\ last.op = "create_entity" /\ last.entity = 1
    /\ free = <<2>>
    /\ is_alive(alive, 1) /\ ~is_alive(alive, 2)

\* C8 as stated: has(E,C) iff E is in entities_with(C) iff an add or upsert of
\* (E,C) succeeded earlier with no remove of (E,C) and no destroy of E after
\* it.  clear() detaches components without either, so this fails.
C8_AsStated ==
    \A e \in StoreEntities, c \in StoreTypes :
        /\ has(Store, e, c) <=> e \in entities_with(Store, c)
        /\ has(Store, e, c) <=> <<e, c>> \in h_attached_nc

\* C8 amended: has(E,C) iff E is in entities_with(C) iff an add or upsert of
\* (E,C) succeeded earlier with no remove of (E,C), no destroy of E and no
\* clear() after it.
C8_HasIffAttached ==
    \A e \in StoreEntities, c \in StoreTypes :
        /\ has(Store, e, c) <=> e \in entities_with(Store, c)
        /\ has(Store, e, c) <=> <<e, c>> \in h_attached

\* C8 witness: clear() has just run on a world in which a live entity had a
\* component attached and never removed, and that entity is still alive.
C8_Witness ==
    /\ last.op = "clear"
    /\ \E p \in h_attached_nc : p[1] \in alive /\ ~has(Store, p[1], p[2])

\* C9: add_component on a live entity that already carries the type raises
\* ComponentAlreadyExists and the stored instance stays; upsert_component in
\* the same situation succeeds, the new instance is the one stored, and the
\* set of entities listed for the type is the same as before.
C9_StrictAddVersusUpsert ==
    [][/\ (/\ last'.op = "add_component"
           /\ is_alive(alive, last'.entity)
           /\ has(Store, last'.entity, last'.ctype))
          => /\ last'.err = "ComponentAlreadyExists"
             /\ get(Store', last'.entity, last'.ctype)
                   = get(Store, last'.entity, last'.ctype)
       /\ (/\ last'.op = "upsert_component"
           /\ is_alive(alive, last'.entity)
           /\ has(Store, last'.entity, last'.ctype))
          => /\ last'.err = "ok"
             /\ get(Store', last'.entity, last'.ctype) = last'.component
             /\ last'.entity \in entities_with(Store', last'.ctype)
             /\ entities_with(Store', last'.ctype) = entities_with(Store, last'.ctype)
             /\ index_by_entity' = index_by_entity]_vars

\* C9 witness: add_component has just been refused with an instance other
\* than the one stored for that entity and type.
C9_Witness ==
    /\ last.op = "add_component" /\ last.err = "ComponentAlreadyExists"
    /\ has(Store, last.entity, last.ctype)
    /\ get(Store, last.entity, last.ctype) # last.component

\* C9 second witness state: upsert_component has just replaced an instance
\* (the same entity was listed for the type before, by the history).
C9_UpsertReached ==
    /\ last.op = "upsert_component" /\ last.err = "ok"
    /\ get(Store, last.entity, last.ctype) = [type |-> "Position", val |-> "q"]
    /\ Cardinality(entities_with(Store, "Position")) = 2

\* Every (entity, type) slot other than (entity, ctype) reads the same before
\* and after the step.
OthersUntouched(entity, ctype) ==
    \A e \in StoreEntities, c \in StoreTypes :
        (e # entity \/ c # ctype) =>
            /\ get(Store', e, c) = get(Store, e, c)
            /\ has(Store', e, c) <=> has(Store, e, c)

\* C10: after a successful add(E, X), get(E, type(X)) is X; after a
\* successful remove(E, type(X)), get returns None and has is false; neither
\* changes any other component of E or any component of another entity.
C10_RoundTrip ==
    [][/\ (last'.op = "add_component" /\ last'.err = "ok")
          => /\ get(Store', last'.entity, TypeOf(last'.component)) = last'.component
             /\ has(Store', last'.entity, TypeOf(last'.component))
             /\ OthersUntouched(last'.entity, TypeOf(last'.component))
       /\ (last'.op = "remove_component" /\ last'.err = "ok")
          => /\ has(Store, last'.entity, last'.ctype)
             /\ get(Store', last'.entity, last'.ctype) = None
             /\ ~has(Store', last'.entity, last'.ctype)
             /\ OthersUntouched(last'.entity, last'.ctype)]_vars

\* C10 witness: remove_component has just succeeded on an entity that keeps
\* its other component, while another entity keeps a component of the
\* removed type.
C10_Witness ==
    /\ last.op = "remove_component" /\ last.err = "ok"
    /\ get(Store, last.entity, last.ctype) = None
    /\ \E c \in ComponentTypes \ {last.ctype} : has(Store, last.entity, c)
    /\ \E e \in alive \ {last.entity} : has(Store, e, last.ctype)

----------------------------------------------------------------------------
\* Properties of World.view, under SpecView.

Yielded == {t.entity : t \in v_out}

\* C11: a view consumed with no change of the store since view() was called
\* never raises; it yields one tuple per entity that carries every requested
\* type and none for any other entity, without duplicates; the k-th
\* component of a tuple is the instance stored for (entity, Tk); nothing is
\* yielded when a requested type has no holder.
C11_ViewCorrect ==
    (h_v_clean /\ v_status \in {"running", "done", "raised"}) =>
        /\ v_status # "raised"
        /\ v_count = Cardinality(v_out)
        /\ \A t1, t2 \in v_out : t1.entity = t2.entity => t1 = t2
        /\ Yielded \cap v_pending = {}
        /\ Yielded \cup v_pending = Carriers(Store, v_types)
        /\ v_status = "done" => Yielded = Carriers(Store, v_types)
        /\ \A t \in v_out :
              /\ Len(t.components) = Len(v_types)
              /\ \A k \in 1..Len(v_types) :
                    t.components[k] = get(Store, t.entity, v_types[k])
        /\ (\E k \in 1..Len(v_types) : entities_with(Store, v_types[k]) = {})
              => v_out = {}

\* C11 witness: view(Velocity, Position) has been consumed to its end with
\* the store untouched; it yielded one entity, and another live entity that
\* carries Position only was not yielded.
C11_Witness ==
    /\ v_status = "done" /\ h_v_clean
    /\ v_types = <<"Velocity", "Position">>
    /\ v_count = 1
    /\ \E e \in alive \ Yielded : has(Store, e, "Position") /\ ~has(Store, e, "Velocity")

\* C12 as stated: the entities a view yields are those that matched when
\* view() was called; an entity that starts matching only after the call is
\* not yielded.
C12_MatchFixedAtCall ==
    /\ v_status \in {"running", "done", "raised"} => v_match = h_v_match
    /\ Yielded \subseteq h_v_match

\* C19: once the match-set is computed, reaching a pending entity that lacks
\* a requested component raises ComponentNotFound: nothing is yielded for it,
\* the tuples yielded before stay, the store and the allocator are not
\* modified, and nothing is yielded after the exception.
C19_ViewHazard ==
    [][/\ (/\ last'.op = "view_next"
           /\ v_status = "running"
           /\ last'.entity \in v_pending
           /\ \E k \in 1..Len(v_types) : ~has(Store, last'.entity, v_types[k]))
          => /\ last'.err = "ComponentNotFound"
             /\ v_status' = "raised"
             /\ v_out' = v_out /\ v_count' = v_count
             /\ UNCHANGED <<store_vars, alloc_vars>>
       /\ v_status = "raised" =>
             (v_status' = "raised" /\ v_out' = v_out /\ v_count' = v_count)
       /\ (v_status = "running" /\ v_status' \in {"running", "raised", "done"})
             => v_out \subseteq v_out']_vars

\* C19 witness: the view yielded one tuple, then a component of the other
\* matched entity, still alive, was removed, and reaching it has just raised
\* ComponentNotFound.
C19_Witness ==
    /\ v_status = "raised" /\ last.op = "view_next" /\ last.err = "ComponentNotFound"
    /\ v_count = 1
    /\ last.entity \in v_match \cap alive
    /\ last.entity \notin Yielded

----------------------------------------------------------------------------
\* C20: no dangling empty entries: no component type maps to an empty entity
\* mapping in _by_component or to an empty set in _index_by_component, no
\* entity maps to an empty type set in _index_by_entity, and _by_component
\* and _index_by_component have the same keys.
C20_NoDanglingEntries ==
    /\ \A c \in DOMAIN by_component : DOMAIN by_component[c] # {}
    /\ \A c \in DOMAIN index_by_component : index_by_component[c] # {}
    /\ \A e \in DOMAIN index_by_entity : index_by_entity[e] # {}
    /\ DOMAIN by_component = DOMAIN index_by_component

\* C20 witness: remove_component has just detached the last instance of a
\* type and the last component of its entity, while another entity still
\* carries a component of the other type.
C20_Witness ==
    /\ last.op = "remove_component" /\ last.err = "ok"
    /\ last.ctype \notin DOMAIN by_component
    /\ last.entity \in alive \ DOMAIN index_by_entity
    /\ DOMAIN by_component # {}

----------------------------------------------------------------------------
\* The ids the next k calls of create() return, from allocator fields a, f, n.
RECURSIVE NextIds(_, _, _, _)
NextIds(a, f, n, k) ==
    IF k = 0 THEN <<>>
    ELSE LET r == EntityManager_create(a, f, n)
         IN <<r.ret>> \o NextIds(r.alive, r.free, r.next_id, k - 1)

\* C16: clear() leaves the allocator untouched: the alive set, the free
\* list with its order and the next-id counter are after clear() what they
\* were before it, so the create() calls that follow return the ids they
\* would have returned without the clear().
C16_ClearKeepsAllocator ==
    [][last'.op = "clear"
         => /\ alive' = alive
            /\ free' = free
            /\ next_id' = next_id
            /\ NextIds(alive', free', next_id', MaxId)
                   = NextIds(alive, free, next_id, MaxId)]_vars

\* C16 witness: clear() has run on a world with a live entity and a
\* non-empty free list, and it removed components.
C16_Witness ==
    /\ last.op = "clear" /\ last.err = "ok"
    /\ alive # {} /\ free # <<>>
    /\ h_attached_nc # {} /\ by_component = EmptyDict

----------------------------------------------------------------------------
\* The order of execution: descending priority, and among systems of equal
\* priority the order in which they were added.
RunsBefore(x, y) ==
    \/ Priority(x) > Priority(y)
    \/ /\ Priority(x) = Priority(y)
       /\ \E i, j \in 1..Len(h_added) : i < j /\ h_added[i] = x /\ h_added[j] = y

\* seq lists the registered systems, each once, in the order of execution.
InExecutionOrder(seq) ==
    /\ Len(seq) = Len(h_added)
    /\ SeqRange(seq) = SeqRange(h_added)
    /\ \A i, j \in 1..Len(seq) : i < j => RunsBefore(seq[i], seq[j])

\* The systems whose hook of the given kind is logged, in the order of the log.
HookOrderOf(log, hook) ==
    LET sel == SelectSeq(log, LAMBDA h : h.hook = hook)
    IN [i \in 1..Len(sel) |-> sel[i].system]

HookOrder(hook) == HookOrderOf(hooks, hook)

\* How often the log holds the hook of the system.
HookCount(log, hook, system) ==
    Len(SelectSeq(log, LAMBDA h : h = Hook(hook, system)))

\* C13: start and update invoke the hooks of the registered systems in
\* descending priority, systems of equal priority in the order they were
\* added; stop invokes the stop hooks in the reverse of that order.
C13_ExecutionOrder ==
    /\ (last.op = "start" /\ last.flag)
           => /\ InExecutionOrder(HookOrder("start"))
              /\ Len(hooks) = Len(h_added)
    /\ (last.op = "update" /\ sweep > Len(systems) /\ h_sweep_changed = {})
           => /\ InExecutionOrder(HookOrder("update"))
              /\ Len(hooks) = Len(h_added)
    /\ (last.op = "stop" /\ last.flag)
           => /\ InExecutionOrder(Reverse(HookOrder("stop")))
              /\ Len(hooks) = Len(h_added)

\* C13 witness: systems of priorities 5, 10, 5 were added in that order,
\* ran their update hooks as 10, first 5, second 5, and the world has just
\* stopped them as second 5, first 5, 10.
C13_Witness ==
    /\ h_added = <<"a", "b", "c">>
    /\ last.op = "stop" /\ last.flag
    /\ hooks = <<Hook("stop", "c"), Hook("stop", "a"), Hook("stop", "b")>>

\* C13 witness of the update order.
C13_UpdateReached ==
    /\ h_added = <<"c", "b", "a">>
    /\ last.op = "update" /\ sweep > Len(systems) /\ h_sweep_changed = {}
    /\ hooks = <<Hook("update", "b"), Hook("update", "c"), Hook("update", "a")>>

----------------------------------------------------------------------------
\* C14: add_system on a started world invokes the start hook of the new
\* system exactly once in that call, and not at all on a world that is not
\* started; over start, stop, add_system and remove_system the lifecycle
\* hooks of each system alternate start, stop, start, ..., never two starts
\* without a stop between them.
C14_StartOnceOnAdd ==
    /\ last.op = "add_system"
           => HookCount(hooks, "start", last.system) = (IF started THEN 1 ELSE 0)
    /\ h_alternates

----------------------------------------------------------------------------
\* C15: Scheduler.start on a started scheduler and Scheduler.stop on one
\* that is not started invoke no system hook and leave the scheduler's
\* state unchanged.
C15_IdempotentStartStop ==
    [][/\ (last'.op = "Scheduler.start" /\ sched_started)
              => /\ hooks' = <<>>
                 /\ UNCHANGED <<systems, sched_started, world_ref>>
       /\ (last'.op = "Scheduler.stop" /\ ~sched_started)
              => /\ hooks' = <<>>
                 /\ UNCHANGED <<systems, sched_started, world_ref>>]_vars

----------------------------------------------------------------------------
\* C17: after clear() the world and the scheduler are stopped, the stop
\* hook of each registered system having run once, in reverse order of
\* execution, if and only if the world was started; the three facets of the
\* store are empty, so no combination of types matches any entity and no
\* live entity has a component of any type; the resource registry is empty.
C17_ClearResets ==
    [][last'.op = "clear"
         => LET S1 == [by_component |-> by_component',
                       index_by_component |-> index_by_component',
                       index_by_entity |-> index_by_entity']
            IN /\ last'.err = "ok"
               /\ ~started' /\ ~sched_started' /\ ~world_ref'
               /\ IF started
                  THEN /\ InExecutionOrder(Reverse(HookOrderOf(hooks', "stop")))
                       /\ Len(hooks') = Len(systems)
                  ELSE hooks' = <<>>
               /\ systems' = systems
               /\ DOMAIN by_component' = {}
               /\ DOMAIN index_by_component' = {}
               /\ DOMAIN index_by_entity' = {}
               /\ \A ts \in ViewTypeLists : all_of(S1, ts) = {}
               /\ \A e \in alive', c \in ComponentTypes : ~has(S1, e, c)
               /\ DOMAIN resources' = {}]_vars

\* C17 witness: clear() has just run on a started world of two systems,
\* stopping first the one of lower priority, with live entities that had
\* components.
C17_Witness ==
    /\ last.op = "clear" /\ last.err = "ok"
    /\ hooks = <<Hook("stop", "a"), Hook("stop", "b")>>
    /\ ~started
    /\ alive # {} /\ h_attached_nc # {}
    /\ by_component = EmptyDict /\ resources = EmptyDict

----------------------------------------------------------------------------
\* C18: a call of update invokes the update hook exactly once for every
\* system that was registered when the call began and was not removed
\* during it, in the order of execution, whatever add_system and
\* remove_system calls the update hooks make.
C18_EachSystemOnce ==
    sweep > Len(systems)
        => /\ \A x \in h_sweep_initial \ h_sweep_changed :
                  HookCount(hooks, "update", x) = 1
           /\ LET stayed == SelectSeq(HookOrder("update"),
                                      LAMBDA x : x \in h_sweep_initial \ h_sweep_changed)
              IN \A i, j \in 1..Len(stayed) :
                     i < j => RunsBefore(stayed[i], stayed[j])

====
